---- MODULE Spec2Model ----
(***************************************************************************)
(* The free-look camera viewer of src/src/main.cpp as a state machine:     *)
(* start-up (GLFW, window, GL loader, shader, buffers), the frame loop,    *)
(* the cursor callback, key processing, and shutdown.                      *)
(*                                                                         *)
(* Arithmetic.  Angles are integers in tenths of a degree, so that the     *)
(* sensitivity 0.1 degree per pixel is one unit per pixel and the clamp    *)
(* bounds -89.0f / 89.0f are -890 / 890.  Pointer coordinates are whole    *)
(* pixels (far below 2^24, where the double -> float narrowing of          *)
(* lastX = xpos is exact).  Vectors are formal linear combinations, with   *)
(* integer coefficients in hundredths of a world unit, of the unit vectors *)
(* the code computes: the front vector of a (yaw, pitch) pair and          *)
(* normalize(cross(front, up)).  The rounding of binary32 sums and         *)
(* products is not represented.                                            *)
(***************************************************************************)
EXTENDS Integers, Sequences, FiniteSets

VARIABLES
    pc,           \* position of main()
    glfw,         \* GLFW library: "uninit", "ok", "failed", "terminated"
    window,       \* "none", "null" (creation failed), "open", "destroyed"
    context,      \* GL context: "none", "current", "destroyed"
    gl,           \* GL loader: "unloaded", "loaded", "failed"
    vertexFile,   \* the vertex shader source file exists
    fragmentFile, \* the fragment shader source file exists
    program,      \* shader program object: "none", "live", "deleted"
    vao,          \* vertex array object: "none", "live", "deleted"
    vbo,          \* vertex buffer object: "none", "live", "deleted"
    deleteCalls,  \* number of glDelete* calls issued per resource
    noCtxCalls,   \* GL calls issued while no context was current
    diag,         \* messages written to std::cerr, in order
    exitStatus,   \* process exit status, -1 while running
    cameraPos, cameraFront, cameraUp, cameraSpeed,
    yaw, pitch, lastX, lastY, firstMouse, sensitivity,
    shouldClose,  \* the window's close flag
    keys,         \* key state cached by GLFW (what glfwGetKey returns)
    pending,      \* cursor events queued by the platform, not yet polled
    view,         \* the view matrix of the current iteration (its inputs)
    calls,        \* calls issued by the current loop iteration, in order
    drawn,        \* vertices drawn by the current loop iteration
    entered,      \* the loop body has been entered at least once
    delivered,    \* the cursor event most recently given to mouse_callback
    moves,        \* elementary key moves applied so far
    wRun, wBase   \* length and starting position of the current run of
                  \* forward-only processInput calls with unchanged front

vars == <<pc, glfw, window, context, gl, vertexFile, fragmentFile, program,
          vao, vbo, deleteCalls, noCtxCalls, diag, exitStatus,
          cameraPos, cameraFront, cameraUp, cameraSpeed,
          yaw, pitch, lastX, lastY, firstMouse, sensitivity,
          shouldClose, keys, pending, view, calls, drawn, entered,
          delivered, moves, wRun, wBase>>

startupVars == <<glfw, window, context, gl, vertexFile, fragmentFile>>
gpuVars     == <<program, vao, vbo, deleteCalls, noCtxCalls>>
cameraVars  == <<cameraPos, cameraFront, cameraUp, cameraSpeed, yaw, pitch,
                 sensitivity>>
mouseVars   == <<lastX, lastY, firstMouse>>
frameVars   == <<view, calls, drawn, entered>>
ghostVars   == <<delivered, moves, wRun, wBase>>

----------------------------------------------------------------------------
(* Bounds of the model *)

MaxQueue == 2   \* cursor events the platform queue holds between polls
MaxMoves == 2   \* elementary key moves over a run

(* Program constants *)

WINDOW_WIDTH  == 800
WINDOW_HEIGHT == 600
PitchLimit    == 890      \* 89.0f, in tenths of a degree
QuadVertices  == 6
FullTurn      == 3600     \* period of cos/sin, in tenths of a degree

(* Inputs *)

Keys     == {"ESC", "W", "S", "A", "D"}
MoveKeys == {"W", "S", "A", "D"}
KeySets  == {{}, {"W"}, {"W", "S"}, {"A", "D"}, {"D"}, {"ESC"}}
CursorPoints == {<<390, 300>>, <<410, -700>>, <<410, 1300>>}

Resources == {"program", "vao", "vbo"}

----------------------------------------------------------------------------
(* Vectors as formal linear combinations: sets of <<symbol, coefficient>>  *)
(* with nonzero coefficients.                                              *)

Coef(v, s) == IF \E t \in v : t[1] = s THEN (CHOOSE t \in v : t[1] = s)[2] ELSE 0

AddVec(v, s, k) ==
    LET c == Coef(v, s) + k
    IN  {t \in v : t[1] # s} \cup (IF c = 0 THEN {} ELSE {<<s, c>>})

\* The front vector (cos y cos p, sin p, sin y cos p) of a yaw/pitch pair.
FrontOf(y, p) == <<"front", y % FullTurn, p>>

\* normalize(cross(front, up)).  With up = (0, 1, 0) and cos(pitch) > 0 this is
\* (-sin yaw, 0, cos yaw): it depends on the yaw of front alone.
RightOf(front, up) == <<"right", front[2], up>>

clamp_NoUpper(x, lo, hi) == IF x < lo THEN lo ELSE x

clamp(x, lo, hi) == IF x < lo THEN lo ELSE IF x > hi THEN hi ELSE x

Range(q) == {q[i] : i \in 1..Len(q)}

----------------------------------------------------------------------------
(* Initial state: the file-scope globals of main.cpp before main() runs.   *)

Init ==
    /\ pc = "glfwInit"
    /\ glfw = "uninit" /\ window = "none" /\ context = "none" /\ gl = "unloaded"
    /\ vertexFile \in BOOLEAN /\ fragmentFile \in BOOLEAN
    /\ program = "none" /\ vao = "none" /\ vbo = "none"
    /\ deleteCalls = [r \in Resources |-> 0]
    /\ noCtxCalls = {}
    /\ diag = <<>>
    /\ exitStatus = -1
    /\ cameraPos = {<<<<"ez">>, 300>>}      \* (0, 0, 3)
    /\ cameraFront = FrontOf(-900, 0)        \* (0, 0, -1)
    /\ cameraUp = <<"ey">>                   \* (0, 1, 0)
    /\ cameraSpeed = 3                       \* 0.03
    /\ yaw = -900 /\ pitch = 0
    /\ lastX = WINDOW_WIDTH \div 2 /\ lastY = WINDOW_HEIGHT \div 2
    /\ firstMouse = TRUE
    /\ sensitivity = 1                       \* 0.1 degree per pixel
    /\ shouldClose = FALSE
    /\ keys = {}
    /\ pending = <<>>
    /\ view = <<>>
    /\ calls = <<>> /\ drawn = 0 /\ entered = FALSE
    /\ delivered = <<>>
    /\ moves = 0 /\ wRun = 0 /\ wBase = {<<<<"ez">>, 300>>}

Ended == {"exited", "aborted", "crashed"}

\* return -1 from main(): the status the parent sees
ReturnMinusOne == (-1) % 256

----------------------------------------------------------------------------
(* Start-up, main() lines 210-256 *)

GlfwInit ==
    /\ pc = "glfwInit"
    /\ \E ok \in BOOLEAN : glfw' = IF ok THEN "ok" ELSE "failed"
    /\ pc' = "createWindow"
    /\ UNCHANGED <<window, context, gl, vertexFile, fragmentFile, gpuVars, diag,
                   exitStatus, cameraVars, mouseVars, shouldClose, keys, pending,
                   frameVars, ghostVars>>

CreateWindow ==
    /\ pc = "createWindow"
    /\ \E ok \in BOOLEAN :
         IF glfw = "ok" /\ ok
         THEN /\ window' = "open"
              /\ pc' = "makeCurrent"
              /\ UNCHANGED <<glfw, diag, exitStatus>>
         ELSE /\ window' = "null"
              /\ diag' = Append(diag, "Failed to create GLFW window")
              /\ glfw' = IF glfw = "ok" THEN "terminated" ELSE glfw
              /\ exitStatus' = ReturnMinusOne
              /\ pc' = "exited"
    /\ UNCHANGED <<context, gl, vertexFile, fragmentFile, gpuVars, cameraVars,
                   mouseVars, shouldClose, keys, pending, frameVars, ghostVars>>

MakeContextCurrent ==
    /\ pc = "makeCurrent"
    /\ context' = "current"
    /\ pc' = "loadGL"
    /\ UNCHANGED <<glfw, window, gl, vertexFile, fragmentFile, gpuVars, diag,
                   exitStatus, cameraVars, mouseVars, shouldClose, keys, pending,
                   frameVars, ghostVars>>

LoadGL_NoReturn ==
    /\ pc = "loadGL"
    /\ \E ok \in BOOLEAN :
         IF ok
         THEN gl' = "loaded" /\ UNCHANGED diag
         ELSE gl' = "failed" /\ diag' = Append(diag, "Failed to initialize GLAD")
    /\ pc' = "shaderReadVertex"
    /\ UNCHANGED <<glfw, window, context, vertexFile, fragmentFile, gpuVars,
                   exitStatus, cameraVars, mouseVars, shouldClose, keys, pending,
                   frameVars, ghostVars>>

LoadGL ==
    /\ pc = "loadGL"
    /\ \E ok \in BOOLEAN :
         IF ok
         THEN /\ gl' = "loaded"
              /\ pc' = "shaderReadVertex"
              /\ UNCHANGED <<diag, exitStatus>>
         ELSE /\ gl' = "failed"
              /\ diag' = Append(diag, "Failed to initialize GLAD")
              /\ exitStatus' = ReturnMinusOne
              /\ pc' = "exited"
    /\ UNCHANGED <<glfw, window, context, vertexFile, fragmentFile, gpuVars,
                   cameraVars, mouseVars, shouldClose, keys, pending, frameVars,
                   ghostVars>>

readFile_NoThrow(exists) == "content"

\* Shader::readFile: the content is returned, or std::ios_base::failure thrown
readFile(exists) == IF exists THEN "content" ELSE "throw"

\* An exception nothing catches: std::terminate, the process is aborted (SIGABRT)
Uncaught ==
    /\ pc' = "aborted"
    /\ exitStatus' = 134

ShaderReadVertex ==
    /\ pc = "shaderReadVertex"
    /\ IF readFile(vertexFile) = "throw"
       THEN Uncaught
       ELSE pc' = "shaderReadFragment" /\ UNCHANGED exitStatus
    /\ UNCHANGED <<startupVars, gpuVars, diag, cameraVars, mouseVars, shouldClose,
                   keys, pending, frameVars, ghostVars>>

ShaderReadFragment ==
    /\ pc = "shaderReadFragment"
    /\ IF readFile(fragmentFile) = "throw"
       THEN Uncaught
       ELSE pc' = "shaderLink" /\ UNCHANGED exitStatus
    /\ UNCHANGED <<startupVars, gpuVars, diag, cameraVars, mouseVars, shouldClose,
                   keys, pending, frameVars, ghostVars>>

\* compileShader twice, glCreateProgram, attach, link.  Compile and link
\* errors are only logged and the program object is kept either way; whether
\* it linked is not tracked.
ShaderLink ==
    /\ pc = "shaderLink"
    /\ program' = "live"
    /\ pc' = "createVAO"
    /\ UNCHANGED <<startupVars, vao, vbo, deleteCalls, noCtxCalls, diag, exitStatus,
                   cameraVars, mouseVars, shouldClose, keys, pending, frameVars,
                   ghostVars>>

CreateVAO ==
    /\ pc = "createVAO"
    /\ vao' = "live"
    /\ pc' = "createVBO"
    /\ UNCHANGED <<startupVars, program, vbo, deleteCalls, noCtxCalls, diag,
                   exitStatus, cameraVars, mouseVars, shouldClose, keys, pending,
                   frameVars, ghostVars>>

CreateVBO ==
    /\ pc = "createVBO"
    /\ vbo' = "live"
    /\ pc' = "attribs"
    /\ UNCHANGED <<startupVars, program, vao, deleteCalls, noCtxCalls, diag,
                   exitStatus, cameraVars, mouseVars, shouldClose, keys, pending,
                   frameVars, ghostVars>>

SetupAttribs ==
    /\ pc = "attribs"
    /\ pc' = "loopCheck"
    /\ UNCHANGED <<startupVars, gpuVars, diag, exitStatus, cameraVars, mouseVars,
                   shouldClose, keys, pending, frameVars, ghostVars>>

----------------------------------------------------------------------------
(* The cursor callback and key processing *)

mouse_callback_NoFirst(xpos, ypos) ==
    LET xOffset == (xpos - lastX) * sensitivity
        yOffset == (lastY - ypos) * sensitivity
        newYaw   == yaw + xOffset
        newPitch == clamp(pitch + yOffset, -PitchLimit, PitchLimit)
    IN  /\ firstMouse' = FALSE
        /\ lastX' = xpos
        /\ lastY' = ypos
        /\ yaw' = newYaw
        /\ pitch' = newPitch
        /\ cameraFront' = FrontOf(newYaw, newPitch)
        /\ UNCHANGED <<cameraPos, cameraUp, cameraSpeed, sensitivity, shouldClose>>

\* mouse_callback(window, xpos, ypos)
mouse_callback(xpos, ypos) ==
    LET fromX   == IF firstMouse THEN xpos ELSE lastX
        fromY   == IF firstMouse THEN ypos ELSE lastY
        xOffset == (xpos - fromX) * sensitivity
        yOffset == (fromY - ypos) * sensitivity
        newYaw   == yaw + xOffset
        newPitch == clamp(pitch + yOffset, -PitchLimit, PitchLimit)
    IN  /\ firstMouse' = FALSE
        /\ lastX' = xpos
        /\ lastY' = ypos
        /\ yaw' = newYaw
        /\ pitch' = newPitch
        /\ cameraFront' = FrontOf(newYaw, newPitch)
        /\ UNCHANGED <<cameraPos, cameraUp, cameraSpeed, sensitivity, shouldClose>>

MovedPos_BackAdds(pos, held, front, up, velocity) ==
    LET afterW == IF "W" \in held THEN AddVec(pos, front, velocity) ELSE pos
        afterS == IF "S" \in held THEN AddVec(afterW, front, velocity) ELSE afterW
        afterA == IF "A" \in held
                  THEN AddVec(afterS, RightOf(front, up), -velocity) ELSE afterS
        afterD == IF "D" \in held
                  THEN AddVec(afterA, RightOf(front, up), velocity) ELSE afterA
    IN  afterD

\* The position after the four key tests of processInput, in the code's order
MovedPos(pos, held, front, up, velocity) ==
    LET afterW == IF "W" \in held THEN AddVec(pos, front, velocity) ELSE pos
        afterS == IF "S" \in held THEN AddVec(afterW, front, -velocity) ELSE afterW
        afterA == IF "A" \in held
                  THEN AddVec(afterS, RightOf(front, up), -velocity) ELSE afterS
        afterD == IF "D" \in held
                  THEN AddVec(afterA, RightOf(front, up), velocity) ELSE afterA
    IN  afterD

processInput_RearmsMouse ==
    /\ shouldClose' = (shouldClose \/ "ESC" \in keys)
    /\ firstMouse' = (firstMouse \/ "ESC" \in keys)
    /\ cameraPos' = MovedPos(cameraPos, keys, cameraFront, cameraUp, cameraSpeed)
    /\ UNCHANGED <<cameraFront, cameraUp, cameraSpeed, yaw, pitch, sensitivity,
                   lastX, lastY>>

\* processInput(window)
processInput ==
    /\ shouldClose' = (shouldClose \/ "ESC" \in keys)
    /\ cameraPos' = MovedPos(cameraPos, keys, cameraFront, cameraUp, cameraSpeed)
    /\ UNCHANGED <<cameraFront, cameraUp, cameraSpeed, yaw, pitch, sensitivity,
                   mouseVars>>

----------------------------------------------------------------------------
(* The frame loop, main() lines 258-279 *)

LoopOrder_PollBeforeUpload ==
    <<"processInput", "clear", "use", "matrices", "poll", "setView",
      "setProjection", "setModel", "bind", "draw", "swap">>

LoopOrder_DrawBeforeModel ==
    <<"processInput", "clear", "use", "matrices", "setView", "setProjection",
      "bind", "draw", "setModel", "swap", "poll">>

\* The statements of the loop body, in program order
LoopOrder == <<"processInput", "clear", "use", "matrices", "setView",
               "setProjection", "setModel", "bind", "draw", "swap", "poll">>

\* The statement after p: the next of the body, or the loop condition
After(p) ==
    LET i == CHOOSE j \in 1..Len(LoopOrder) : LoopOrder[j] = p
    IN  IF i = Len(LoopOrder) THEN "loopCheck" ELSE LoopOrder[i + 1]

LoopCheck_TestsKey ==
    /\ pc = "loopCheck"
    /\ IF "ESC" \in keys
       THEN pc' = "terminate" /\ UNCHANGED <<calls, drawn, entered>>
       ELSE /\ pc' = LoopOrder[1]
            /\ calls' = <<>> /\ drawn' = 0 /\ entered' = TRUE
    /\ view' = <<>>
    /\ UNCHANGED <<startupVars, gpuVars, diag, exitStatus, cameraVars, mouseVars,
                   shouldClose, keys, pending, ghostVars>>

\* while (!glfwWindowShouldClose(window))
LoopCheck ==
    /\ pc = "loopCheck"
    /\ IF shouldClose
       THEN pc' = "terminate" /\ UNCHANGED <<calls, drawn, entered>>
       ELSE /\ pc' = LoopOrder[1]
            /\ calls' = <<>> /\ drawn' = 0 /\ entered' = TRUE
    /\ view' = <<>>     \* the body's locals are gone
    /\ UNCHANGED <<startupVars, gpuVars, diag, exitStatus, cameraVars, mouseVars,
                   shouldClose, keys, pending, ghostVars>>

\* A statement of the body that only issues a call
Issue(at, call) ==
    /\ pc = at
    /\ calls' = Append(calls, call)
    /\ pc' = After(at)
    /\ UNCHANGED <<startupVars, gpuVars, diag, exitStatus, cameraVars, mouseVars,
                   shouldClose, keys, pending, view, drawn, entered, ghostVars>>

ProcessInput ==
    /\ pc = "processInput"
    /\ processInput
    /\ calls' = Append(calls, "processInput")
    /\ moves' = moves + Cardinality(keys \cap MoveKeys)
    /\ IF keys \cap MoveKeys = {"W"}
       THEN wRun' = wRun + 1 /\ UNCHANGED wBase
       ELSE wRun' = 0 /\ wBase' = cameraPos'
    /\ pc' = After("processInput")
    /\ UNCHANGED <<startupVars, gpuVars, diag, exitStatus, keys, pending, view,
                   drawn, entered, delivered>>

Clear == Issue("clear", "glClear")

UseShader == Issue("use", "glUseProgram")

\* view = lookAt(cameraPos, cameraPos + cameraFront, cameraUp); projection
ComputeMatrices ==
    /\ pc = "matrices"
    /\ view' = <<cameraPos, cameraFront, cameraUp>>
    /\ calls' = Append(calls, "lookAt")
    /\ pc' = After("matrices")
    /\ UNCHANGED <<startupVars, gpuVars, diag, exitStatus, cameraVars, mouseVars,
                   shouldClose, keys, pending, drawn, entered, ghostVars>>

SetView == Issue("setView", "view")

SetProjection == Issue("setProjection", "projection")

SetModel == Issue("setModel", "model")

BindVAO == Issue("bind", "glBindVertexArray")

\* glDrawArrays(GL_TRIANGLES, 0, 6)
Draw ==
    /\ pc = "draw"
    /\ drawn' = drawn + QuadVertices
    /\ calls' = Append(calls, "glDrawArrays")
    /\ pc' = After("draw")
    /\ UNCHANGED <<startupVars, gpuVars, diag, exitStatus, cameraVars, mouseVars,
                   shouldClose, keys, pending, view, entered, ghostVars>>

SwapBuffers == Issue("swap", "glfwSwapBuffers")

\* The platform queues a cursor movement; nothing of the program runs.  The
\* program reads the queue in glfwPollEvents only, so the moment an event
\* arrives within an iteration makes no difference to it: arrivals are taken
\* at two moments, while the frame is being drawn and during the poll.
ArrivalPoints == {"bind", "poll"}

CursorMove ==
    /\ window = "open"
    /\ pc \in ArrivalPoints
    /\ Len(pending) < MaxQueue
    /\ \E p \in CursorPoints : pending' = Append(pending, p)
    /\ UNCHANGED <<pc, startupVars, gpuVars, diag, exitStatus, cameraVars,
                   mouseVars, shouldClose, keys, frameVars, ghostVars>>

\* The position in the queue of the event glfwPollEvents takes next
NextIndex(q) == 1

\* glfwPollEvents gives one queued cursor event to the registered callback
DeliverCursor ==
    /\ pc = "poll"
    /\ pending # <<>>
    /\ LET i == NextIndex(pending)
           e == pending[i]
       IN  /\ mouse_callback(e[1], e[2])
           /\ pending' = SubSeq(pending, 1, i - 1) \o SubSeq(pending, i + 1, Len(pending))
           /\ delivered' = e
    /\ wRun' = 0 /\ wBase' = cameraPos
    /\ UNCHANGED <<pc, startupVars, gpuVars, diag, exitStatus, keys, frameVars,
                   moves>>

\* glfwPollEvents returns once the queue is drained; the key and close events
\* it processed have set the cached key state and possibly the close flag
PollReturn ==
    /\ pc = "poll"
    /\ pending = <<>>
    /\ \E held \in KeySets, closeRequest \in BOOLEAN :
         /\ moves + Cardinality(held \cap MoveKeys) <= MaxMoves
         /\ keys' = held
         /\ shouldClose' = (shouldClose \/ closeRequest)
    /\ calls' = Append(calls, "glfwPollEvents")
    /\ pc' = After("poll")
    /\ UNCHANGED <<startupVars, gpuVars, diag, exitStatus, cameraVars, mouseVars,
                   pending, view, drawn, entered, ghostVars>>

----------------------------------------------------------------------------
(* Shutdown, main() lines 281-283 *)

Terminate ==
    /\ pc = "terminate"
    /\ glfw' = "terminated" /\ window' = "destroyed" /\ context' = "destroyed"
    /\ pc' = "dtorVBO"
    /\ UNCHANGED <<gl, vertexFile, fragmentFile, gpuVars, diag, exitStatus,
                   cameraVars, mouseVars, shouldClose, keys, pending, frameVars,
                   ghostVars>>

\* A destructor calling glDelete* on resource r.  With no current context the
\* call is undefined: it may return having done nothing, or crash.
Destroy(at, r, call, next) ==
    /\ pc = at
    /\ deleteCalls' = [deleteCalls EXCEPT ![r] = @ + 1]
    /\ IF context = "current"
       THEN /\ program' = IF r = "program" THEN "deleted" ELSE program
            /\ vao' = IF r = "vao" THEN "deleted" ELSE vao
            /\ vbo' = IF r = "vbo" THEN "deleted" ELSE vbo
            /\ pc' = next
            /\ UNCHANGED <<noCtxCalls, exitStatus>>
       ELSE /\ noCtxCalls' = noCtxCalls \cup {call}
            /\ \/ pc' = next /\ UNCHANGED exitStatus
               \/ pc' = "crashed" /\ exitStatus' = 139
            /\ UNCHANGED <<program, vao, vbo>>
    /\ UNCHANGED <<startupVars, diag, cameraVars, mouseVars, shouldClose, keys,
                   pending, frameVars, ghostVars>>

DestroyVBO == Destroy("dtorVBO", "vbo", "glDeleteBuffers", "dtorVAO")

DestroyVAO == Destroy("dtorVAO", "vao", "glDeleteVertexArrays", "dtorShader")

DestroyShader == Destroy("dtorShader", "program", "glDeleteProgram", "return")

Return ==
    /\ pc = "return"
    /\ exitStatus' = 0
    /\ pc' = "exited"
    /\ UNCHANGED <<startupVars, gpuVars, diag, cameraVars, mouseVars, shouldClose,
                   keys, pending, frameVars, ghostVars>>

----------------------------------------------------------------------------

Next ==
    \/ GlfwInit \/ CreateWindow \/ MakeContextCurrent \/ LoadGL
    \/ ShaderReadVertex \/ ShaderReadFragment \/ ShaderLink
    \/ CreateVAO \/ CreateVBO \/ SetupAttribs
    \/ LoopCheck \/ ProcessInput \/ Clear \/ UseShader \/ ComputeMatrices
    \/ SetView \/ SetProjection \/ SetModel \/ BindVAO \/ Draw \/ SwapBuffers
    \/ CursorMove \/ DeliverCursor \/ PollReturn
    \/ Terminate \/ DestroyVBO \/ DestroyVAO \/ DestroyShader \/ Return

Spec == Init /\ [][Next]_vars

----------------------------------------------------------------------------
(* Notions the properties share *)

LoopPcs == Range(LoopOrder) \cup {"loopCheck"}

ShutdownPcs == {"terminate", "dtorVBO", "dtorVAO", "dtorShader", "return",
                "exited", "crashed"}

\* The loop state of the specification's state machine
LoopState ==
    IF pc \in LoopPcs THEN "Running"
    ELSE IF pc \in ShutdownPcs /\ entered THEN "Closing"
    ELSE "Starting"

\* A step that issues the draw call
DrawStep == calls' = Append(calls, "glDrawArrays")

\* A step in which processInput runs
InputStep == pc = "processInput" /\ pc' # pc

\* A step in which glfwPollEvents hands one cursor event to mouse_callback
DeliveryStep == pc = "poll" /\ Len(pending') < Len(pending)

InitialPos == {<<<<"ez">>, 300>>}

Clamped(x) ==
    IF x > PitchLimit THEN PitchLimit ELSE IF x < -PitchLimit THEN -PitchLimit ELSE x

----------------------------------------------------------------------------
(* C1 *)

\* C1, as stated: when processInput observes Escape pressed the close flag is
\* set and stays set, the next loop check leaves Running for Closing, and no
\* draw call is issued in any step taken with the close flag set.
C1_NoDrawOnceFlagged ==
    [][ /\ (InputStep /\ "ESC" \in keys => shouldClose')
        /\ (shouldClose => shouldClose')
        /\ (pc = "loopCheck" /\ pc' # pc /\ shouldClose => LoopState' = "Closing")
        /\ (shouldClose => ~DrawStep) ]_vars

\* C1, amended: when processInput observes Escape pressed the close flag is set
\* and stays set, the next loop check leaves Running for Closing, Closing is
\* never left, and no draw call is issued once the loop state is Closing.  (The
\* iteration that sampled Escape still issues its draw call.)
C1_NoDrawOnceClosing ==
    [][ /\ (InputStep /\ "ESC" \in keys => shouldClose')
        /\ (shouldClose => shouldClose')
        /\ (pc = "loopCheck" /\ pc' # pc /\ shouldClose => LoopState' = "Closing")
        /\ (LoopState = "Closing" => LoopState' = "Closing" /\ ~DrawStep) ]_vars

\* Escape was sampled by processInput and the iteration has gone on to draw
C1_Witness ==
    pc = "swap" /\ shouldClose /\ "ESC" \in keys /\ "glDrawArrays" \in Range(calls)

----------------------------------------------------------------------------
(* C2 *)

\* The pitch offset mouse_callback derives from event e in the current state
PitchOffset(e) == IF firstMouse THEN 0 ELSE (lastY - e[2]) * sensitivity

\* C2: pitch is within [-89, 89] degrees in every reachable state, and a cursor
\* event whose offset would take pitch above 89 (below -89) leaves it at
\* exactly 89 (-89).
C2_PitchClamped ==
    /\ [](pitch >= -PitchLimit /\ pitch <= PitchLimit)
    /\ [][ DeliveryStep =>
             LET target == pitch + PitchOffset(Head(pending))
             IN  /\ (target > PitchLimit => pitch' = PitchLimit)
                 /\ (target < -PitchLimit => pitch' = -PitchLimit) ]_vars

\* An event at the topmost point has driven pitch into the upper limit
C2_Witness == pitch = PitchLimit /\ lastY = -700 /\ delivered = <<410, -700>>

----------------------------------------------------------------------------
(* C3 *)

----------------------------------------------------------------------------
(* C4 *)

----------------------------------------------------------------------------
(* C5 *)

StartupFailed == glfw = "failed" \/ window = "null" \/ gl = "failed"

\* C5: after a failed glfwInit the process can only reach the window creation
\* that detects it; after a failed window creation or GL loader initialisation
\* the process has ended; it ended with a nonzero status and a diagnostic
\* written, and no loop iteration and no GPU resource creation has happened.
C5_StartupFailure ==
    /\ (glfw = "failed" => pc \in {"createWindow", "exited"})
    /\ (window = "null" \/ gl = "failed" => pc = "exited")
    /\ (StartupFailed =>
          /\ ~entered /\ calls = <<>>
          /\ program = "none" /\ vao = "none" /\ vbo = "none"
          /\ (pc = "exited" => exitStatus > 0 /\ diag # <<>>))

\* The GL loader failed on an open window
C5_Witness == pc = "exited" /\ gl = "failed" /\ window = "open"

----------------------------------------------------------------------------
(* C6 *)

BeforeShader == {"glfwInit", "createWindow", "makeCurrent", "loadGL",
                 "shaderReadVertex"}

\* C6: with the vertex or the fragment shader file missing the process never
\* gets past the read of the missing file: no program object is created, the
\* loop is never entered, and once the read has been attempted the process is
\* aborted.
C6_MissingFileFatal ==
    /\ (~vertexFile => pc \in BeforeShader \cup {"exited", "aborted"})
    /\ (~fragmentFile =>
          pc \in BeforeShader \cup {"shaderReadFragment", "exited", "aborted"})
    /\ (~vertexFile \/ ~fragmentFile =>
          /\ program = "none" /\ vao = "none" /\ vbo = "none"
          /\ ~entered /\ calls = <<>> /\ drawn = 0
          /\ (pc = "exited" => StartupFailed))

\* The fragment file was missing and the vertex file was read
C6_Witness == pc = "aborted" /\ vertexFile /\ ~fragmentFile /\ gl = "loaded"

----------------------------------------------------------------------------
(* C7 *)

ClaimedSteps == <<"processInput", "glClear", "view", "projection", "model",
                  "glDrawArrays", "glfwSwapBuffers", "glfwPollEvents">>

IsPrefix(a, b) == Len(a) <= Len(b) /\ a = SubSeq(b, 1, Len(a))

Observed == SelectSeq(calls, LAMBDA c : c \in Range(ClaimedSteps))

\* C7: the calls an iteration has issued are at every moment the first ones of:
\* processInput, clear, upload view, upload projection, upload model, draw,
\* swap, poll; a finished iteration issued all of them, once each, and drew 6
\* vertices; a draw is preceded by the three uploads.
C7_IterationOrder ==
    /\ IsPrefix(Observed, ClaimedSteps)
    /\ (entered /\ pc \notin Range(LoopOrder) =>
          Observed = ClaimedSteps /\ drawn = QuadVertices)
    /\ ("glDrawArrays" \in Range(calls) =>
          {"view", "projection", "model"} \subseteq Range(calls)
          /\ drawn = QuadVertices)
    /\ ("glDrawArrays" \notin Range(calls) => drawn = 0)

\* A finished iteration with the loop about to run again
C7_Witness == pc = "loopCheck" /\ entered /\ ~shouldClose /\ Len(calls) = Len(LoopOrder)

----------------------------------------------------------------------------
(* C8 *)

\* The view matrix of this iteration has been computed and not yet drawn with
ViewInUse ==
    pc \in Range(LoopOrder) /\ "lookAt" \in Range(calls)
    /\ "glDrawArrays" \notin Range(calls)

\* C8: from the computation of the view matrix to the draw call the camera is
\* the one the view was built from; orientation and mouse-tracking state change
\* only in the poll step and position only in processInput; the poll step hands
\* over the queued events oldest first and returns only with the queue empty.
C8_NoMutationInFlight ==
    /\ [](ViewInUse => view = <<cameraPos, cameraFront, cameraUp>>)
    /\ [][ /\ (<<yaw, pitch, cameraFront, mouseVars>>' # <<yaw, pitch, cameraFront, mouseVars>>
                 => pc = "poll")
           /\ (cameraPos' # cameraPos => pc = "processInput")
           /\ (DeliveryStep => delivered' = Head(pending) /\ pending' = Tail(pending))
           /\ (pc = "poll" /\ pc' # pc => pending = <<>>) ]_vars

\* Two cursor events wait in the queue while the frame is drawn
C8_Witness == pc = "draw" /\ Len(pending) = 2 /\ ~firstMouse /\ pending[1] # pending[2]

----------------------------------------------------------------------------
(* C9 *)

\* C9, as stated: after a normal exit each of the program, the vertex array and
\* the vertex buffer has been deleted by exactly one call, and no deletion was
\* issued without a current context.
C9_DeletedInContext ==
    pc = "exited" /\ exitStatus = 0 =>
        /\ \A r \in Resources : deleteCalls[r] = 1
        /\ program = "deleted" /\ vao = "deleted" /\ vbo = "deleted"
        /\ noCtxCalls = {}

----------------------------------------------------------------------------
(* C10 *)

\* C10: a cursor event leaves position, up, speed, sensitivity and the close
\* flag as they are; a processInput call leaves yaw, pitch, front, up, speed,
\* sensitivity and the mouse-tracking state as they are; the first-sample flag
\* never goes from false to true.
C10_Frame ==
    [][ /\ (DeliveryStep =>
              UNCHANGED <<cameraPos, cameraUp, cameraSpeed, sensitivity, shouldClose>>)
        /\ (InputStep =>
              UNCHANGED <<yaw, pitch, cameraFront, cameraUp, cameraSpeed,
                          sensitivity, lastX, lastY, firstMouse>>)
        /\ (~firstMouse => ~firstMouse') ]_vars

\* Both operations have acted: the camera has been turned and moved, and
\* Escape is being processed
C10_Witness ==
    /\ pc = "clear" /\ "ESC" \in keys /\ shouldClose
    /\ ~firstMouse /\ cameraPos # InitialPos /\ yaw # -900

====
